---- MODULE Spec2Model ----
(***************************************************************************)
(* Spend Tracker API (src/main.py, src/schemas.py): keyword categorizer,   *)
(* transaction / rule / budget creation and the monthly insights summary.  *)
(*                                                                         *)
(* Representation                                                          *)
(*   - text that the code inspects character by character (merchant,       *)
(*     description, keyword, month) is a sequence of one-character strings *)
(*   - a category is an atom (a TLA+ string); "" is the empty text         *)
(*   - Optional[x] is <<>> for None and <<x>> for a present value          *)
(*   - a datetime is <<year, month, day, second of day>>                   *)
(*   - an amount or limit is an integer number of eighths of a currency    *)
(*     unit: such values and their sums are exact binary floats, so the    *)
(*     float arithmetic of the code is exact on them                       *)
(*   - a value rounded to 2 decimals is an integer number of cents, a      *)
(*     percentage rounded to 1 decimal an integer number of tenths         *)
(*   - the database handle db is connected (main.py:112 and the like do    *)
(*     not raise); _id is the position of a document in its collection     *)
(***************************************************************************)
EXTENDS Integers, Sequences, FiniteSets, TLC

VARIABLES
    rules,          \* collection "categoryrule", in stored order
    transactions,   \* collection "transaction", in stored order
    budgets,        \* collection "budget", in stored order
    created,        \* history: per transaction, the payload category and the number of rules stored at its creation
    last,           \* the latest operation: its locals and its response
    scan            \* a direct call of apply_auto_category: its arguments and result

vars == <<rules, transactions, budgets, created, last, scan>>

\* ---------------------------------------------------------------- bounds

MaxTxns == 2
MaxRules == 1
MaxBudgets == 1
MaxScanRules == 2

\* ---------------------------------------------------------------- values

None == <<>>
Some(x) == <<x>>

\* Python truthiness of an Optional[str]: None and "" are falsy
Truthy(o) == o # None /\ o[1] # ""

\* Python truthiness of an Optional[float]: None and 0 are falsy
TruthyNumber(o) == o # None /\ o[1] # 0

RECURSIVE SumSeq(_)
SumSeq(s) == IF s = <<>> THEN 0 ELSE Head(s) + SumSeq(Tail(s))

\* ---------------------------------------------------------------- text

UpperChars == <<"A", "B", "S">>
LowerChars == <<"a", "b", "s">>

\* str.lower() on one character
LowerChar(c) ==
    IF \E i \in 1..Len(UpperChars) : UpperChars[i] = c
    THEN LowerChars[CHOOSE i \in 1..Len(UpperChars) : UpperChars[i] = c]
    ELSE c

\* str.lower()
Lower(s) == [i \in 1..Len(s) |-> LowerChar(s[i])]

\* the Python operator  k in t  on strings
Contains(k, t) ==
    \E i \in 1..(Len(t) - Len(k) + 1) : SubSeq(t, i, i + Len(k) - 1) = k

\* f"{merchant} {description or ''}".lower()
SearchText(merchant, description) ==
    Lower(merchant \o <<" ">> \o (IF description = None THEN <<>> ELSE description[1]))

\* a rule whose keyword is compared without lower(): a plausible slip
RuleMatchesNoLower(r, text) == Contains(r.keyword, text)

\* r.get("keyword", "").lower() in text
RuleMatches(r, text) == Contains(Lower(r.keyword), text)

RECURSIVE ScanRules(_, _)
\* for r in rules: if ...: return r.get("category") / return None
ScanRules(rs, text) ==
    IF rs = <<>> THEN None
    ELSE IF RuleMatches(Head(rs), text) THEN Some(Head(rs).category)
    ELSE ScanRules(Tail(rs), text)

\* get_documents(collection): the documents in stored order
get_documents(coll) == coll

\* create_document(collection, data): the collection with the document stored last
create_document(coll, doc) == Append(coll, doc)

apply_auto_category(merchant, description, ruleDocs) ==
    ScanRules(get_documents(ruleDocs), SearchText(merchant, description))

\* ---------------------------------------------------------------- dates

Digits == <<"0", "1", "2", "3", "4", "5", "6", "7", "8", "9">>
DigitSet == {Digits[i] : i \in 1..10}
NonZeroDigitSet == DigitSet \ {"0"}
IsDigit(c) == c \in DigitSet
DigitVal(c) == (CHOOSE i \in 1..10 : Digits[i] = c) - 1
DigitChar(n) == Digits[n + 1]

\* the character at position i, "" past either end
At(t, i) == IF i \in 1..Len(t) THEN t[i] ELSE ""

\* datetime: proleptic Gregorian calendar
IsLeap(y) == y % 4 = 0 /\ (y % 100 # 0 \/ y % 400 = 0)

DaysInMonth(y, m) ==
    IF m = 2 THEN (IF IsLeap(y) THEN 29 ELSE 28)
    ELSE IF m \in {4, 6, 9, 11} THEN 30 ELSE 31

NextDay(dt) ==
    IF dt[3] < DaysInMonth(dt[1], dt[2]) THEN <<dt[1], dt[2], dt[3] + 1, dt[4]>>
    ELSE IF dt[2] < 12 THEN <<dt[1], dt[2] + 1, 1, dt[4]>>
    ELSE <<dt[1] + 1, 1, 1, dt[4]>>

RECURSIVE AddDays(_, _)
\* dt + timedelta(days=n)
AddDays(dt, n) == IF n = 0 THEN dt ELSE AddDays(NextDay(dt), n - 1)

\* dt.replace(day=1)
ReplaceDay1(dt) == <<dt[1], dt[2], 1, dt[4]>>

\* a < b on datetimes
DateLT(a, b) ==
    \/ a[1] < b[1]
    \/ a[1] = b[1] /\ a[2] < b[2]
    \/ a[1] = b[1] /\ a[2] = b[2] /\ a[3] < b[3]
    \/ a[1] = b[1] /\ a[2] = b[2] /\ a[3] = b[3] /\ a[4] < b[4]

DateGE(a, b) == ~DateLT(a, b)

\* strptime's field %m, (1[0-2]|0[1-9]|[1-9]), at position p: the lengths it can take, in the order tried
MonthFieldLens(t, p) ==
    (IF \/ At(t, p) = "1" /\ At(t, p + 1) \in {"0", "1", "2"}
        \/ At(t, p) = "0" /\ At(t, p + 1) \in NonZeroDigitSet
     THEN <<2>> ELSE <<>>)
    \o (IF At(t, p) \in NonZeroDigitSet THEN <<1>> ELSE <<>>)

\* strptime's field %d, (3[01]|[12]\d|0[1-9]|[1-9]| [1-9]), at position q: the length matched, 0 for no match
DayFieldLen(t, q) ==
    IF \/ At(t, q) = "3" /\ At(t, q + 1) \in {"0", "1"}
       \/ At(t, q) \in {"1", "2"} /\ IsDigit(At(t, q + 1))
       \/ At(t, q) = "0" /\ At(t, q + 1) \in NonZeroDigitSet
    THEN 2
    ELSE IF At(t, q) \in NonZeroDigitSet THEN 1
    ELSE IF At(t, q) = " " /\ At(t, q + 1) \in NonZeroDigitSet THEN 2
    ELSE 0

FieldVal(t, p, n) ==
    IF n = 1 THEN DigitVal(t[p])
    ELSE IF At(t, p) = " " THEN DigitVal(t[p + 1])
    ELSE 10 * DigitVal(t[p]) + DigitVal(t[p + 1])

\* datetime.strptime(t, "%Y-%m-%d"): Some(datetime), or None for ValueError
Strptime(t) ==
    LET yearOk == \A i \in 1..4 : IsDigit(At(t, i))
        \* the month lengths after which "-" and a day field follow
        fits == SelectSeq(MonthFieldLens(t, 6),
                          LAMBDA n : At(t, 6 + n) = "-" /\ DayFieldLen(t, 7 + n) > 0)
    IN  IF ~(yearOk /\ At(t, 5) = "-" /\ fits # <<>>) THEN None
        ELSE LET mlen == Head(fits)
                 dlen == DayFieldLen(t, 7 + mlen)
                 y == 1000 * DigitVal(t[1]) + 100 * DigitVal(t[2]) + 10 * DigitVal(t[3]) + DigitVal(t[4])
                 m == FieldVal(t, 6, mlen)
                 d == FieldVal(t, 7 + mlen, dlen)
             IN  IF 6 + mlen + dlen # Len(t) THEN None       \* unconverted data remains
                 ELSE IF y < 1 \/ d > DaysInMonth(y, m) THEN None
                 ELSE Some(<<y, m, d, 0>>)

\* dt.strftime("%Y-%m"), for a year of four digits
StrftimeYm(dt) ==
    <<DigitChar(dt[1] \div 1000), DigitChar((dt[1] \div 100) % 10),
      DigitChar((dt[1] \div 10) % 10), DigitChar(dt[1] % 10), "-",
      DigitChar(dt[2] \div 10), DigitChar(dt[2] % 10)>>

\* the range end computed without crossing into the next month in 31-day months: a plausible slip
MonthEndShort(start) == ReplaceDay1(AddDays(start, 30))

\* (start + timedelta(days=32)).replace(day=1)
MonthEnd(start) == ReplaceDay1(AddDays(start, 32))

\* ---------------------------------------------------------------- rounding

\* the integer nearest to n / d, ties to the even one: Python's round() on an exact value
RoundHalfEven(n, d) ==
    LET q == n \div d
        r == n % d
    IN  IF 2 * r < d THEN q
        ELSE IF 2 * r > d THEN q + 1
        ELSE IF q % 2 = 0 THEN q ELSE q + 1

\* rounding to 1 decimal where 2 are meant (result still in cents): a plausible slip
Round2OneDecimal(total) == 10 * RoundHalfEven(10 * total, 8)

\* round(total, 2) of an amount in eighths, in cents
Round2(total) == RoundHalfEven(100 * total, 8)

\* round(x, 2) of a sum of values that are whole cents, in cents
RoundCents(c) == RoundHalfEven(100 * c, 100)

\* round((total / limit) * 100, 1), in tenths of a percent
UsedPct(total, limit) == RoundHalfEven(1000 * total, limit)

\* ---------------------------------------------------------------- operations

NoCall ==
    [op |-> "none", status |-> 0, monthArg |-> None, start |-> None, end |-> None,
     matched |-> {}, agg |-> <<>>, body |-> None]

Call(op, status, body) == [NoCall EXCEPT !.op = op, !.status = status, !.body = body]

\* the stored category when the rule's category replaces whatever was supplied: a plausible slip
EffectiveCategoryAutoWins(supplied, auto) == IF Truthy(auto) THEN auto ELSE supplied

\* if auto and not data.get("category"): data["category"] = auto
EffectiveCategory(supplied, auto) ==
    IF Truthy(auto) /\ ~Truthy(supplied) THEN auto ELSE supplied

\* TransactionOut built from the stored document
normalize_txn(doc, id) ==
    [id |-> id, amount |-> doc.amount, merchant |-> doc.merchant,
     description |-> doc.description, category |-> doc.category, date |-> doc.date,
     account |-> doc.account, currency |-> doc.currency]

\* POST /api/transactions. The payload passed pydantic validation (amount > 0).
\* The document just inserted is found by its _id, so neither the fallback
\* lookup nor the 500 of main.py:121-125 is taken.
create_transaction(payload) ==
    LET auto == apply_auto_category(payload.merchant, payload.description, rules)
        data == [payload EXCEPT !.category = EffectiveCategory(payload.category, auto)]
        id == Len(transactions) + 1
    IN  /\ Len(transactions) < MaxTxns
        /\ transactions' = create_document(transactions, data)
        /\ created' = Append(created, [category |-> payload.category, nrules |-> Len(rules)])
        /\ last' = Call("create_transaction", 200, normalize_txn(data, id))
        /\ UNCHANGED <<rules, budgets, scan>>

\* POST /api/rules
add_rule(rule) ==
    /\ Len(rules) < MaxRules
    /\ rules' = create_document(rules, rule)
    /\ last' = Call("add_rule", 200, "ok")
    /\ UNCHANGED <<transactions, budgets, created, scan>>

\* POST /api/budgets. The payload passed pydantic validation (month pattern, limit > 0).
set_budget(budget) ==
    /\ Len(budgets) < MaxBudgets
    /\ budgets' = create_document(budgets, budget)
    /\ last' = Call("set_budget", 200, "ok")
    /\ UNCHANGED <<rules, transactions, created, scan>>

\* ---------------------------------------------------------------- insights

\* {"$match": {"date": {"$gte": start, "$lt": end}}}: the positions of the documents that pass
Matched(txns, start, end) ==
    {i \in 1..Len(txns) : DateGE(txns[i].date, start) /\ DateLT(txns[i].date, end)}

\* a group total taken over every document of the category, matched or not: a plausible slip
GroupTotalUnfiltered(txns, matched, key) ==
    SumSeq([i \in 1..Len(txns) |-> IF txns[i].category = key THEN txns[i].amount ELSE 0])

\* "total": {"$sum": "$amount"} of the group whose _id is key
GroupTotal(txns, matched, key) ==
    SumSeq([i \in 1..Len(txns) |->
              IF i \in matched /\ txns[i].category = key THEN txns[i].amount ELSE 0])

\* {"$group": {"_id": "$category", "total": ..., "count": {"$sum": 1}}}
Groups(txns, matched) ==
    {[_id |-> key,
      total |-> GroupTotal(txns, matched, key),
      count |-> Cardinality({i \in matched : txns[i].category = key})]
        : key \in {txns[i].category : i \in matched}}

Orders(groups) ==
    {s \in [1..Cardinality(groups) -> groups] : \A i, j \in DOMAIN s : i # j => s[i] # s[j]}

\* the groups in any order, the $sort stage left out: a plausible slip
UnsortedOrders(groups) == Orders(groups)

\* {"$sort": {"total": -1}}: every way the store may order the groups. The sort
\* key is the total alone, and MongoDB returns documents with equal sort keys in
\* any order, which may differ from one execution to the next.
SortedOrders(groups) ==
    {s \in Orders(groups) : \A i \in 1..(Len(s) - 1) : s[i].total >= s[i + 1].total}

\* budgets = {b["category"]: b for b in db["budget"].find({"month": month})}, then
\* budgets.get(cat, {}).get("limit"): of the budgets of the month with that
\* category the one stored last, or None
BudgetLimit(budgetDocs, month, cat) ==
    LET hits == {i \in 1..Len(budgetDocs) :
                    budgetDocs[i].month = month /\ budgetDocs[i].category = cat}
    IN  IF hits = {} THEN None
        ELSE Some(budgetDocs[CHOOSE i \in hits : \A j \in hits : j <= i].limit)

\* the message with the upper threshold at 80: a plausible slip
MessageThreshold80(cat, total, limit) ==
    IF TruthyNumber(limit)
    THEN LET used_pct == UsedPct(total, limit[1])
         IN  [class |-> IF used_pct >= 800 THEN "over-threshold"
                        ELSE IF used_pct >= 700 THEN "warning" ELSE "healthy",
              cat |-> cat, used_pct |-> Some(used_pct)]
    ELSE [class |-> "no-budget", cat |-> cat, used_pct |-> None]

\* main.py:164-173: the text of msg, as the template chosen and the values put into it
Message(cat, total, limit) ==
    IF TruthyNumber(limit)
    THEN LET used_pct == UsedPct(total, limit[1])
         IN  [class |-> IF used_pct >= 900 THEN "over-threshold"
                        ELSE IF used_pct >= 700 THEN "warning" ELSE "healthy",
              cat |-> cat, used_pct |-> Some(used_pct)]
    ELSE [class |-> "no-budget", cat |-> cat, used_pct |-> None]

\* cat = item.get("_id") or "Uncategorized"
Label(key) == IF Truthy(key) THEN key[1] ELSE "Uncategorized"

\* one pass of the loop of main.py:160-179
Recommendation(item, budgetDocs, month) ==
    LET cat == Label(item._id)
        total == item.total
        limit == BudgetLimit(budgetDocs, month, cat)
    IN  [category |-> cat, spent |-> Round2(total), budget |-> limit,
         message |-> Message(cat, total, limit)]

Summary(month, agg, budgetDocs) ==
    LET recommendations == [i \in 1..Len(agg) |-> Recommendation(agg[i], budgetDocs, month)]
    IN  [month |-> month,
         categories |-> recommendations,
         top_category |-> IF recommendations # <<>> THEN Some(recommendations[1].category) ELSE None,
         total_spend |-> RoundCents(SumSeq([i \in 1..Len(recommendations) |-> recommendations[i].spent]))]

\* GET /api/insights?month=...; now is datetime.utcnow(). A ValueError of
\* strptime is not caught: the request ends in a 500 with no summary.
insights(monthArg, now) ==
    /\ \E month \in {IF monthArg = None THEN StrftimeYm(now) ELSE monthArg[1]} :
       \E parsed \in {Strptime(month \o <<"-", "0", "1">>)} :
          IF parsed = None
          THEN last' = [Call("insights", 500, None) EXCEPT !.monthArg = monthArg]
          ELSE \E start \in {parsed[1]} :
               \E end \in {MonthEnd(start)} :
               \E matched \in {Matched(transactions, start, end)} :
               \E agg \in SortedOrders(Groups(transactions, matched)) :
                   last' = [op |-> "insights", status |-> 200, monthArg |-> monthArg,
                            start |-> Some(start), end |-> Some(end),
                            matched |-> matched, agg |-> agg,
                            body |-> Summary(month, agg, budgets)]
    /\ UNCHANGED <<rules, transactions, budgets, created, scan>>

\* ---------------------------------------------------------------- inputs

Feb2024 == <<"2", "0", "2", "4", "-", "0", "2">>
Mar2024 == <<"2", "0", "2", "4", "-", "0", "3">>

Txn(amount, merchant, description, category, date) ==
    [amount |-> amount, merchant |-> merchant, description |-> description,
     category |-> category, date |-> date, account |-> None, currency |-> "USD"]

\* request bodies of POST /api/transactions: merchant "Sb" or "x"; category
\* absent, empty, "Food" or "Uncategorized"; 0.625 or 0.875 units; a date in
\* February 2024 or the first instant of March 2024
Payloads ==
    {Txn(5, <<"S", "b">>, None, None, <<2024, 2, 15, 0>>),
     Txn(7, <<"S", "b">>, None, Some(""), <<2024, 2, 15, 0>>),
     Txn(5, <<"S", "b">>, None, Some("Food"), <<2024, 2, 29, 86399>>),
     Txn(5, <<"x">>, None, Some("Uncategorized"), <<2024, 2, 15, 0>>),
     Txn(7, <<"x">>, None, Some("Food"), <<2024, 3, 1, 0>>)}

\* request bodies of POST /api/rules
RuleInputs ==
    {[keyword |-> <<"s">>, category |-> "Dining"],
     [keyword |-> <<"S">>, category |-> ""]}

\* request bodies of POST /api/budgets: limits of 1.0 and 0.75 units
BudgetInputs ==
    {[category |-> "Food", month |-> Feb2024, limit |-> 8],
     [category |-> "Uncategorized", month |-> Feb2024, limit |-> 8],
     [category |-> "Food", month |-> Mar2024, limit |-> 6]}

MonthArgs == {Some(Feb2024)}
Clock == {<<2024, 2, 29, 43200>>}

\* ---------------------------------------------------------------- the service

NoScan == [merchant |-> <<>>, description |-> None, rules |-> <<>>, result |-> None,
           phase |-> "off", swap |-> <<>>, first |-> None]

Init ==
    /\ rules = <<>>
    /\ transactions = <<>>
    /\ budgets = <<>>
    /\ created = <<>>
    /\ last = NoCall
    /\ scan = NoScan

CreateTransaction == \E payload \in Payloads : create_transaction(payload)
AddRule == \E rule \in RuleInputs : add_rule(rule)
SetBudget == \E budget \in BudgetInputs : set_budget(budget)
Insights == \E monthArg \in MonthArgs, now \in Clock : insights(monthArg, now)

Next == CreateTransaction \/ AddRule \/ SetBudget \/ Insights

Spec == Init /\ [][Next]_vars

\* ---------------------------------------------------------------- insights over the calendar

Years == {1900, 2024}

YearName(y) == IF y = 1900 THEN <<"1", "9", "0", "0">> ELSE <<"2", "0", "2", "4">>

MonthNames ==
    <<<<"0", "1">>, <<"0", "2">>, <<"0", "3">>, <<"0", "4">>, <<"0", "5">>, <<"0", "6">>,
      <<"0", "7">>, <<"0", "8">>, <<"0", "9">>, <<"1", "0">>, <<"1", "1">>, <<"1", "2">>>>

\* the text YYYY-MM of month m of year y
MonthName(y, m) == YearName(y) \o <<"-">> \o MonthNames[m]

\* month texts that are not four digits, a hyphen and two digits, and two that are but name no month
OddMonths ==
    {<<"2", "0", "2", "4", "-", "3">>,
     <<"2", "0", "2", "4", "-", "1", "3">>,
     <<"2", "0", "2", "4", "-", "0", "0">>,
     <<"2", "0", "2", "-", "0", "2">>,
     <<"2", "0", "2", "4", "/", "0", "2">>,
     <<"2", "0", "2", "4", "-", "0", "2", "1">>}

CalendarMonthArgs ==
    {None} \cup {Some(MonthName(y, m)) : y \in Years, m \in 1..12} \cup {Some(t) : t \in OddMonths}

CalendarClock == {<<2024, 2, 29, 43200>>, <<2024, 12, 31, 86399>>}

\* the first and the last instant of every month of Years, and the instants next to them
EdgeDates ==
    {<<y, m, 1, 0>> : y \in Years, m \in 1..12}
    \cup {<<y, m, DaysInMonth(y, m), 86399>> : y \in Years, m \in 1..12}
    \cup {<<y - 1, 12, 31, 86399>> : y \in Years}
    \cup {<<y + 1, 1, 1, 0>> : y \in Years}

\* the store after one create_transaction of a transaction dated at an edge
InitCalendar ==
    \E d \in EdgeDates :
        LET doc == Txn(5, <<"x">>, None, Some("Food"), d)
        IN  /\ rules = <<>>
            /\ transactions = <<doc>>
            /\ budgets = <<>>
            /\ created = <<[category |-> doc.category, nrules |-> 0]>>
            /\ last = Call("create_transaction", 200, normalize_txn(doc, 1))
            /\ scan = NoScan

InsightsCalendar == \E monthArg \in CalendarMonthArgs, now \in CalendarClock : insights(monthArg, now)

SpecCalendar == InitCalendar /\ [][InsightsCalendar]_vars

\* ---------------------------------------------------------------- the categorizer alone

ScanMerchants == {<<"S", "b">>, <<"a">>}
ScanDescriptions == {None, Some(<<>>), Some(<<"B", "s">>)}
ScanKeywords == {<<"s">>, <<"S", "B">>, <<"b", " ", "b">>, <<>>, <<"z">>}
ScanCategories == {"Dining", "Coffee"}
ScanRuleInputs == [keyword : ScanKeywords, category : ScanCategories]

SeqsUpTo(S, n) == UNION {[1..k -> S] : k \in 0..n}

Swap(s, i, j) == [s EXCEPT ![i] = s[j], ![j] = s[i]]

InitScan ==
    /\ rules = <<>>
    /\ transactions = <<>>
    /\ budgets = <<>>
    /\ created = <<>>
    /\ last = NoCall
    /\ \E m \in ScanMerchants, d \in ScanDescriptions, rs \in SeqsUpTo(ScanRuleInputs, MaxScanRules) :
          scan = [NoScan EXCEPT !.merchant = m, !.description = d, !.rules = rs, !.phase = "input"]

\* a call apply_auto_category(merchant, description) over the stored rules
ScanCall ==
    /\ scan.phase \in {"input", "reordered"}
    /\ scan' = [scan EXCEPT
                  !.result = apply_auto_category(scan.merchant, scan.description, scan.rules),
                  !.phase = IF scan.phase = "input" THEN "done" ELSE "redone"]
    /\ UNCHANGED <<rules, transactions, budgets, created, last>>

\* the same rules stored with two of them exchanged
ScanReorder ==
    /\ scan.phase = "done"
    /\ \E i, j \in 1..Len(scan.rules) :
          /\ i < j
          /\ scan' = [scan EXCEPT !.rules = Swap(scan.rules, i, j), !.swap = <<i, j>>,
                                  !.first = scan.result, !.result = None,
                                  !.phase = "reordered"]
    /\ UNCHANGED <<rules, transactions, budgets, created, last>>

NextScan == ScanCall \/ ScanReorder

SpecScan == InitScan /\ [][NextScan]_vars

\* ---------------------------------------------------------------- properties: categorizer

CasePairs == {<<"A", "a">>, <<"B", "b">>, <<"S", "s">>}

\* the same letter, whatever the case
SameLetter(a, b) == a = b \/ <<a, b>> \in CasePairs \/ <<b, a>> \in CasePairs

\* k is a case-insensitive substring of t
OccursIgnoringCase(k, t) ==
    \E off \in 0..(Len(t) - Len(k)) : \A n \in 1..Len(k) : SameLetter(k[n], t[off + n])

\* the text "{merchant} {description}" of the direct call, description empty when absent
ScanText ==
    scan.merchant \o <<" ">> \o (IF scan.description = None THEN <<>> ELSE scan.description[1])

\* rule i of rs is the first of rs whose keyword occurs in the text
FirstMatchAt(rs, i) ==
    /\ OccursIgnoringCase(rs[i].keyword, ScanText)
    /\ \A h \in 1..(i - 1) : ~OccursIgnoringCase(rs[h].keyword, ScanText)

\* rule j of rs is the first after rule i whose keyword occurs in the text
NextMatchAt(rs, i, j) ==
    /\ i < j
    /\ OccursIgnoringCase(rs[j].keyword, ScanText)
    /\ \A h \in (i + 1)..(j - 1) : ~OccursIgnoringCase(rs[h].keyword, ScanText)

\* C1: apply_auto_category returns the category of the first rule, in stored
\* order, whose keyword is a case-insensitive substring of "{merchant}
\* {description}", and none when no rule matches; after exchanging the first and
\* the second matching rule the result is the category of the rule that was second.
C1_FirstMatchWins ==
    /\ scan.phase \in {"done", "redone"} =>
          \/ \E i \in 1..Len(scan.rules) :
                FirstMatchAt(scan.rules, i) /\ scan.result = Some(scan.rules[i].category)
          \/ /\ \A i \in 1..Len(scan.rules) : ~OccursIgnoringCase(scan.rules[i].keyword, ScanText)
             /\ scan.result = None
    /\ scan.phase = "redone" =>
          LET i == scan.swap[1]
              j == scan.swap[2]
              before == Swap(scan.rules, i, j)
          IN  (FirstMatchAt(before, i) /\ NextMatchAt(before, i, j)) =>
                  /\ scan.first = Some(before[i].category)
                  /\ scan.result = Some(before[j].category)

\* a reordered call whose result differs from the one before the exchange
C1_Witness ==
    /\ scan.phase = "redone"
    /\ FirstMatchAt(Swap(scan.rules, scan.swap[1], scan.swap[2]), scan.swap[1])
    /\ NextMatchAt(Swap(scan.rules, scan.swap[1], scan.swap[2]), scan.swap[1], scan.swap[2])
    /\ scan.result # scan.first
    /\ \E r \in 1..Len(scan.rules) : scan.rules[r].keyword = <<"S", "B">> /\ FirstMatchAt(scan.rules, r)

\* ---------------------------------------------------------------- properties: month range

InsightsOk == last.op = "insights" /\ last.status = 200

\* C2: for every month YYYY-MM the range is [1st of the month 00:00, 1st of the
\* following month 00:00), December rolling into January of the next year, and
\* the transactions aggregated are exactly those dated in that month.
C2_MonthRange ==
    \A y \in Years, m \in 1..12 :
        (last.op = "insights" /\ last.monthArg = Some(MonthName(y, m))) =>
            /\ last.status = 200
            /\ last.start = Some(<<y, m, 1, 0>>)
            /\ last.end = Some(IF m = 12 THEN <<y + 1, 1, 1, 0>> ELSE <<y, m + 1, 1, 0>>)
            /\ \A i \in 1..Len(transactions) :
                  i \in last.matched <=> (transactions[i].date[1] = y /\ transactions[i].date[2] = m)
            /\ Len(last.body.categories) = (IF last.matched = {} THEN 0 ELSE 1)
            /\ last.body.total_spend = SumSeq([k \in 1..Len(last.agg) |-> Round2(last.agg[k].total)])
            /\ \A k \in 1..Len(last.agg) :
                  last.agg[k].count = Cardinality({i \in 1..Len(transactions) :
                        transactions[i].date[1] = y /\ transactions[i].date[2] = m})

\* February 2024 summed with a transaction of the last second of 29 February in it
C2_Witness ==
    /\ InsightsOk
    /\ last.monthArg = Some(Feb2024)
    /\ last.end = Some(<<2024, 3, 1, 0>>)
    /\ transactions[1].date = <<2024, 2, 29, 86399>>
    /\ last.matched = {1}

\* four digits, a hyphen, two digits
WellFormedMonth(t) ==
    /\ Len(t) = 7
    /\ \A i \in {1, 2, 3, 4, 6, 7} : t[i] \in DigitSet
    /\ t[5] = "-"

\* C5: a supplied month text that is not four digits, a hyphen and two digits is
\* rejected before any aggregation or budget lookup, and no summary is returned.
C5_MalformedMonthRejected ==
    (last.op = "insights" /\ last.monthArg # None /\ ~WellFormedMonth(last.monthArg[1])) =>
        (last.status # 200 /\ last.start = None /\ last.agg = <<>>)

\* ---------------------------------------------------------------- properties: stored category

\* the categorizer's result for transaction i against the rules stored when it was created
AutoAtCreation(i) ==
    apply_auto_category(transactions[i].merchant, transactions[i].description,
                        SubSeq(rules, 1, created[i].nrules))

\* C3 as stated: every stored transaction's category is the supplied category
\* when one was supplied, otherwise the categorizer's result against the rules
\* stored at its creation (none if no rule matched); rules added later change nothing.
C3_CategoryFixedAtCreation ==
    \A i \in 1..Len(transactions) :
        transactions[i].category =
            IF created[i].category # None THEN created[i].category ELSE AutoAtCreation(i)

\* C3 as amended: every stored transaction's category is the supplied category
\* when a non-empty one was supplied; otherwise the categorizer's result against
\* the rules stored at its creation when that result is a non-empty category;
\* otherwise the supplied value (none or the empty text) as it came. Rules
\* added later change nothing.
C3_CategoryFixedAtCreationAmended ==
    /\ Len(created) = Len(transactions)
    /\ \A i \in 1..Len(transactions) :
          /\ created[i].nrules <= Len(rules)
          /\ LET supplied == created[i].category
                 auto == AutoAtCreation(i)
             IN  /\ (supplied # None /\ supplied # Some("")) => transactions[i].category = supplied
                 /\ (supplied \in {None, Some("")} /\ auto # None /\ auto # Some(""))
                        => transactions[i].category = auto
                 /\ (supplied \in {None, Some("")} /\ auto \in {None, Some("")})
                        => transactions[i].category = supplied

\* a transaction stored without a category that a rule added later would categorize
C3_Witness ==
    \E i \in 1..Len(transactions) :
        /\ created[i].category = None
        /\ created[i].nrules < Len(rules)
        /\ transactions[i].category = None
        /\ apply_auto_category(transactions[i].merchant, transactions[i].description, rules)
               = Some("Dining")

\* ---------------------------------------------------------------- properties: insights

RECURSIVE SumOver(_, _)
\* the sum of f over the finite set S
SumOver(S, f) ==
    IF S = {} THEN 0
    ELSE LET x == CHOOSE x \in S : TRUE IN f[x] + SumOver(S \ {x}, f)

\* the stored transactions dated in the month of the latest summary
InMonth == {i \in 1..Len(transactions) : StrftimeYm(transactions[i].date) = last.body.month}

\* the in-month transactions whose category is key
OfCategory(key) == {i \in InMonth : transactions[i].category = key}

\* the unrounded sum, in eighths, of the in-month amounts of category key
TrueTotal(key) == SumOver(OfCategory(key), [i \in 1..Len(transactions) |-> transactions[i].amount])

Abs(x) == IF x < 0 THEN -x ELSE x

Entries == last.body.categories

\* C4: an entry whose category has a budget for the resolved month carries that
\* limit, and its message is over-threshold when used_pct >= 90, warning when
\* 70 <= used_pct < 90, healthy when used_pct < 70, where used_pct is total /
\* limit * 100 to 1 decimal; an entry without such a budget carries no budget
\* and the no-budget message; the other entries are reported regardless.
C4_BudgetMessage ==
    InsightsOk =>
        /\ Len(Entries) = Cardinality({transactions[i].category : i \in InMonth})
        /\ \A k \in 1..Len(Entries) :
              LET e == Entries[k]
                  total == TrueTotal(last.agg[k]._id)
                  limits == {budgets[b].limit : b \in {c \in 1..Len(budgets) :
                                budgets[c].category = e.category /\ budgets[c].month = last.body.month}}
              IN  IF limits = {}
                  THEN e.budget = None /\ e.message.class = "no-budget"
                  ELSE /\ e.budget # None
                       /\ e.budget[1] \in limits
                       /\ e.message.used_pct # None
                       /\ LET pct == e.message.used_pct[1]
                          IN  /\ 2 * Abs(1000 * total - pct * e.budget[1]) <= e.budget[1]
                              /\ pct >= 900 => e.message.class = "over-threshold"
                              /\ (pct >= 700 /\ pct < 900) => e.message.class = "warning"
                              /\ pct < 700 => e.message.class = "healthy"

\* a summary with a warning for one category and no budget for another
C4_Witness ==
    /\ InsightsOk
    /\ \E j, k \in 1..Len(Entries) :
          /\ Entries[j].message.class = "warning"
          /\ Entries[j].budget = Some(8)
          /\ Entries[k].message.class = "no-budget"

\* C6: two insights calls for the same explicit month with no write between
\* them return the same summary, and insights changes nothing in the store.
C6_InsightsIdempotent ==
    [][(last.op = "insights" /\ last'.op = "insights" /\ last.monthArg # None
            /\ last'.monthArg = last.monthArg /\ last.status = 200)
        => (last'.status = 200 /\ last'.body = last.body
            /\ UNCHANGED <<rules, transactions, budgets>>)]_vars

\* C7: each in-month transaction is counted in exactly one group, keyed by its
\* raw category (none included); each entry's spent is the sum of the amounts of
\* exactly the in-month transactions of its group's category, to 2 decimals;
\* the none group is labelled "Uncategorized"; a month without transactions
\* gives no entries and zero total spend.
C7_Grouping ==
    InsightsOk =>
        LET keys == {transactions[i].category : i \in InMonth}
        IN  /\ Len(last.agg) = Cardinality(keys)
            /\ Len(Entries) = Len(last.agg)
            /\ {last.agg[k]._id : k \in 1..Len(last.agg)} = keys
            /\ last.matched = InMonth
            /\ \A k \in 1..Len(Entries) :
                  LET key == last.agg[k]._id
                  IN  /\ last.agg[k].count = Cardinality(OfCategory(key))
                      /\ last.agg[k].total = TrueTotal(key)
                      /\ 2 * Abs(8 * Entries[k].spent - 100 * TrueTotal(key)) <= 8
                      /\ key = None => Entries[k].category = "Uncategorized"
                      /\ (key # None /\ key # Some("")) => Entries[k].category = key[1]
            /\ InMonth = {} => (Entries = <<>> /\ last.body.total_spend = 0)

\* a summary with a group of transactions without category, while the store
\* also holds a transaction of another month
C7_Witness ==
    /\ InsightsOk
    /\ \E k \in 1..Len(last.agg) : last.agg[k]._id = None /\ Entries[k].spent = 62
    /\ \E i \in 1..Len(transactions) : i \notin InMonth

\* C8: total_spend is the sum of the entries' rounded spent values, itself to 2
\* decimals, and each spent value is within 0.01 of the unrounded sum of its
\* category's amounts.
C8_Rounding ==
    InsightsOk =>
        /\ last.body.total_spend = SumOver(1..Len(Entries), [k \in 1..Len(Entries) |-> Entries[k].spent])
        /\ \A k \in 1..Len(Entries) :
              Abs(8 * Entries[k].spent - 100 * TrueTotal(last.agg[k]._id)) <= 8

\* two groups of 0.625 each: 0.62 + 0.62 = 1.24, where the unrounded amounts sum to 1.25
C8_Witness ==
    /\ InsightsOk
    /\ Len(Entries) = 2
    /\ TrueTotal(last.agg[1]._id) = 5
    /\ TrueTotal(last.agg[2]._id) = 5
    /\ last.body.total_spend = 124

\* C9: the entries are in descending order of total spent, and top_category is
\* the label of the first entry, a group of maximum total, or none when there
\* is no entry.
C9_SortedDescending ==
    InsightsOk =>
        /\ \A k \in 1..(Len(Entries) - 1) :
              /\ TrueTotal(last.agg[k]._id) >= TrueTotal(last.agg[k + 1]._id)
              /\ Entries[k].spent >= Entries[k + 1].spent
        /\ Entries = <<>> => last.body.top_category = None
        /\ Entries # <<>> =>
              /\ last.body.top_category = Some(Entries[1].category)
              /\ Len(Entries) = Len(last.agg)
              /\ \A i \in InMonth :
                    TrueTotal(transactions[i].category) <= TrueTotal(last.agg[1]._id)

\* a summary of two groups of different totals, stored in ascending order of total
C9_Witness ==
    /\ InsightsOk
    /\ Len(Entries) = 2
    /\ Entries[1].spent > Entries[2].spent
    /\ Len(transactions) = 2
    /\ transactions[1].amount < transactions[2].amount

\* C10: each category label appears at most once in the entries, and the budget
\* of an entry is the one whose category equals the raw category of its group.
C10_LabelsDistinctBudgetByRawKey ==
    InsightsOk =>
        /\ \A j, k \in 1..Len(Entries) : j # k => Entries[j].category # Entries[k].category
        /\ \A k \in 1..Len(Entries) :
              Entries[k].budget =
                  IF last.agg[k]._id = None THEN None
                  ELSE BudgetLimit(budgets, last.body.month, last.agg[k]._id[1])

====
